---- MODULE Spec2Model ----
(***************************************************************************)
(* Model of resize-image (src/index.ts, src/storage.ts).                   *)
(*                                                                         *)
(* processAllImages and resizeImage are async functions: every `await` is  *)
(* a point where the function is suspended, and the code between two       *)
(* awaits runs as one step.  The model has one action per way an awaited   *)
(* promise can settle (resolved / rejected); each action runs the code up  *)
(* to the next await.                                                      *)
(*                                                                         *)
(* `quality` is a JavaScript number and `quality * 0.8` is not rounded, so *)
(* the model keeps it as an exact fraction: the integer stored is the      *)
(* quality multiplied by QScale = 5^10, which keeps 95 * 0.8^k exact for   *)
(* every k the loop can reach.                                             *)
(***************************************************************************)
EXTENDS Integers, Sequences, FiniteSets, TLC

\* ---------------------------------------------------------------- constants

ORIGINAL_FOLDER == "./original"

OUTPUT_FOLDER == "./output"

MAX_FILE_SIZE == 500 * 1024

MAX_DIMENSION == 1024

SUPPORTED_FORMATS == {".jpg", ".jpeg", ".png", ".webp", ".tiff", ".bmp"}

maxAttempts == 10

\* Fixed-point scale of `quality`: a quality of q is stored as q * QScale.
QScale == 5^10

InitialQuality == 95 * QScale

\* The literal 10 of lines 107, 108 and 116.
QualityFloor == 10 * QScale

\* ------------------------------------------------------------------- bounds

\* Longest directory listing the scan returns.
MaxFiles == 2

\* Source sides 1..SmallSide and the sides within NearSpan of MAX_DIMENSION
\* and of 2 * MAX_DIMENSION are planned, besides the sampled ones.
SmallSide == 3

NearSpan == 2

\* ------------------------------------------------------------ input domains

\* Names the original folder may hold.
FileNames == {"a.jpg", "b.PNG", "c.tiff", "d.txt"}

\* Encoded buffer lengths: at the budget and one byte over it.
BufferSizes == {MAX_FILE_SIZE, MAX_FILE_SIZE + 1}

\* 0 stands for a width or height that metadata() does not give (undefined
\* or 0: both are falsy at line 48).
MainSides == {0, 800, 2000}

PlanSides ==
    (1 .. SmallSide)
        \cup ((MAX_DIMENSION - NearSpan) .. (MAX_DIMENSION + NearSpan))
        \cup ((2 * MAX_DIMENSION - NearSpan) .. (2 * MAX_DIMENSION + NearSpan))
        \cup {600, 768, 800, 1000, 1500, 2000, 3000, 4096}

NoBuffer == -1

\* Sequences over S without repetition, of length at most n.
RECURSIVE Listings(_, _)
Listings(S, n) ==
    IF n = 0 THEN {<< >>}
    ELSE LET shorter == Listings(S, n - 1)
         IN  shorter \cup
             {Append(l, f) : l \in {s \in shorter : Len(s) = n - 1},
                             f \in S}

NoRepeat(l) == \A i, j \in 1 .. Len(l) : i # j => l[i] # l[j]

\* ------------------------------------------------------------ pure helpers

\* path.extname on the names of FileNames.
extname(fileName) ==
    CASE fileName = "a.jpg" -> ".jpg"
      [] fileName = "b.PNG" -> ".PNG"
      [] fileName = "c.tiff" -> ".tiff"
      [] fileName = "d.txt" -> ".txt"
      [] OTHER -> ""

\* String.prototype.toLowerCase on the extensions of FileNames.
toLowerCase(s) ==
    CASE s = ".PNG" -> ".png"
      [] OTHER -> s

getExtension(fileName) == toLowerCase(extname(fileName))

\* The extension compared as it is spelled, not lower-cased.
isSupportedImageFormatAsSpelled(fileName) ==
    extname(fileName) \in SUPPORTED_FORMATS

isSupportedImageFormat(fileName) == getExtension(fileName) \in SUPPORTED_FORMATS

\* path.join(folder, fileName): the file of that name in that folder.
join(folder, fileName) == << folder, fileName >>

\* Array.prototype.filter.
RECURSIVE filter(_)
filter(l) ==
    IF l = << >> THEN << >>
    ELSE IF isSupportedImageFormat(Head(l))
         THEN << Head(l) >> \o filter(Tail(l))
         ELSE filter(Tail(l))

\* Math.floor in the place of Math.round.
MathRoundTruncates(a, b) == a \div b

\* Math.round(a / b) for a >= 0, b > 0: the nearest integer, halves up.
MathRound(a, b) == (2 * a + b) \div (2 * b)

Max(a, b) == IF a >= b THEN a ELSE b

\* quality * 0.8 on the fixed-point representation.  Every quality the loop
\* reaches is a multiple of 5 in this representation, so the division is
\* exact; dividing first keeps the product inside TLC's integers.
Times08(q) == (q \div 5) * 4

\* The portrait branch a copy of the landscape branch, sides not swapped.
PlanDimensionsCopied(w, h) ==
    IF w > h
    THEN IF w > MAX_DIMENSION
         THEN [newWidth |-> MAX_DIMENSION,
               newHeight |-> MathRound(h * MAX_DIMENSION, w)]
         ELSE [newWidth |-> w, newHeight |-> h]
    ELSE IF h > MAX_DIMENSION
         THEN [newWidth |-> MAX_DIMENSION,
               newHeight |-> MathRound(h * MAX_DIMENSION, w)]
         ELSE [newWidth |-> w, newHeight |-> h]

\* `quality` in the place of `100 - quality`.
PngCompressionLevelOfQuality(q) ==
    LET level == (9 * (q \div 5) + 10 * QScale) \div (20 * QScale)
    IN  IF level < 9 THEN level ELSE 9

\* Lines 94-97: Math.min(9, Math.round((9 * (100 - quality)) / 100)).
\* Math.round(x / 100) is floor((x + 50) / 100); numerator and denominator
\* are divided by 5 to stay inside TLC's integers.
PngCompressionLevel(q) ==
    LET level == (190 * QScale - 9 * (q \div 5)) \div (20 * QScale)
    IN  IF level < 9 THEN level ELSE 9

\* Lines 54-69: the planned dimensions.
PlanDimensions(w, h) ==
    IF w > h
    THEN IF w > MAX_DIMENSION
         THEN [newWidth |-> MAX_DIMENSION,
               newHeight |-> MathRound(h * MAX_DIMENSION, w)]
         ELSE [newWidth |-> w, newHeight |-> h]
    ELSE IF h > MAX_DIMENSION
         THEN [newWidth |-> MathRound(w * MAX_DIMENSION, h),
               newHeight |-> MAX_DIMENSION]
         ELSE [newWidth |-> w, newHeight |-> h]

\* Line 107: the condition under which the quality is reduced.
TooLarge(len, q) == len > MAX_FILE_SIZE /\ q > QualityFloor

\* The quality divided by 0.8 instead of multiplied.
ReducedQualityDivided(q) == Max(QualityFloor, (q \div 4) * 5)

\* Line 108.
ReducedQuality(q) == Max(QualityFloor, Times08(q))

\* The attempt ceiling compared one too early.
LoopAgainOneShort(len, att, q) ==
    len > MAX_FILE_SIZE /\ att < maxAttempts - 1 /\ q > QualityFloor

\* The do/while without its attempt ceiling.
LoopAgainNoCeiling(len, att, q) ==
    len > MAX_FILE_SIZE /\ q > QualityFloor

\* Lines 113-117: the condition of the do/while.
LoopAgain(len, att, q) ==
    len > MAX_FILE_SIZE /\ att < maxAttempts /\ q > QualityFloor

\* ------------------------------------------------------------------- state

VARIABLES
    pc,               \* the await at which the program is suspended
    ensured,          \* how storage.ensureDestination settled, "pending" before
    files,            \* processAllImages: what the scan of the folder gave
    inputPath,        \* resizeImage: its parameters, << >> outside a call
    outputPath,
    exitCode,         \* process.exit status, -1 while none
    imageFiles,       \* processAllImages: the filtered listing
    idx,              \* processAllImages: position of the for loop
    processedCount,
    errorCount,
    width, height,    \* resizeImage: metadata of the source
    newWidth, newHeight,
    quality,
    attempts,
    buffer,           \* length of `buffer`, NoBuffer before the first encode
    thrown,           \* the error resizeImage rejected with, "none" if none
    tried,            \* history: <<quality, size>> of every resolved encode
    sizeAtFloor,      \* the size this image encodes to at quality 10
    output,           \* output folder: file position -> length written
    result            \* per file: "pending", "processed" or the error logged

vars == << pc, ensured, files, inputPath, outputPath, exitCode,
           imageFiles, idx, processedCount, errorCount,
           width, height, newWidth, newHeight, quality, attempts, buffer,
           thrown, tried, sizeAtFloor, output, result >>

locals == << width, height, newWidth, newHeight, quality, attempts, buffer,
             thrown, tried, sizeAtFloor >>

batch == << imageFiles, idx, processedCount, errorCount, result >>

paths == << inputPath, outputPath >>

\* Lines 174-177: resizeImage is called for fileName.
CallResize(fileName) ==
    /\ inputPath' = join(ORIGINAL_FOLDER, fileName)
    /\ outputPath' = join(OUTPUT_FOLDER, fileName)

NoCall == inputPath' = << >> /\ outputPath' = << >>

NoLocals ==
    /\ width = 0 /\ height = 0 /\ newWidth = 0 /\ newHeight = 0
    /\ quality = 0 /\ attempts = 0 /\ buffer = NoBuffer
    /\ thrown = "none" /\ tried = << >> /\ sizeAtFloor = NoBuffer

ResetLocals ==
    /\ width' = 0 /\ height' = 0 /\ newWidth' = 0 /\ newHeight' = 0
    /\ quality' = 0 /\ attempts' = 0 /\ buffer' = NoBuffer
    /\ thrown' = "none" /\ tried' = << >> /\ sizeAtFloor' = NoBuffer

\* processAllImages() has been called and awaits ensureOutputFolder().
Init ==
    /\ pc = "ensure"
    /\ ensured = "pending"
    /\ files = << >>
    /\ inputPath = << >>
    /\ outputPath = << >>
    /\ exitCode = -1
    /\ imageFiles = << >>
    /\ idx = 0
    /\ processedCount = 0
    /\ errorCount = 0
    /\ NoLocals
    /\ output = << >>
    /\ result = << >>

\* ----------------------------------------------------------------- actions

\* Lines 16-19, 144-151: the output folder is ready, the scan starts.
EnsureResolved ==
    /\ pc = "ensure"
    /\ pc' = "scan"
    /\ ensured' = "ok"
    /\ UNCHANGED << files, paths, exitCode, batch, locals, output >>

\* The catch of ensureOutputFolder logs the error and does not rethrow it.
EnsureRejectedSwallowed ==
    /\ pc = "ensure"
    /\ pc' = "scan"
    /\ ensured' = "failed"
    /\ UNCHANGED << files, paths, exitCode, batch, locals, output >>

\* Lines 20-23, 190-193: ensureDestination rejects, the outer catch exits.
EnsureRejected ==
    /\ pc = "ensure"
    /\ pc' = "exited"
    /\ ensured' = "failed"
    /\ exitCode' = 1
    /\ UNCHANGED << files, paths, batch, locals, output >>

\* Lines 151-177: the scan gave `files`; they are filtered and the for loop
\* calls resizeImage for the first one, which awaits image.metadata().
ScanResolved(found) ==
    /\ pc = "scan"
    /\ files' = found
    /\ imageFiles' = filter(found)
    /\ result' = [i \in 1 .. Len(imageFiles') |-> "pending"]
    /\ output' = [i \in 1 .. Len(imageFiles') |-> NoBuffer]
    /\ IF Len(imageFiles') = 0
       THEN pc' = "done" /\ idx' = idx /\ UNCHANGED paths
       ELSE pc' = "metadata" /\ idx' = 1 /\ CallResize(imageFiles'[1])
    /\ UNCHANGED << ensured, exitCode, processedCount, errorCount, locals >>

\* Lines 154-157: the scan throws, processAllImages returns.
ScanRejected ==
    /\ pc = "scan"
    /\ pc' = "done"
    /\ UNCHANGED << ensured, files, paths, exitCode, batch, locals, output >>

\* The test of line 48 is missing: the dimensions are planned as they come.
MetadataResolvedUnchecked(w, h, floorSize) ==
    /\ pc = "metadata"
    /\ pc' = "encode"
    /\ width' = w
    /\ height' = h
    /\ newWidth' = PlanDimensions(w, h).newWidth
    /\ newHeight' = PlanDimensions(w, h).newHeight
    /\ quality' = InitialQuality
    /\ attempts' = 1
    /\ sizeAtFloor' = floorSize
    /\ UNCHANGED << buffer, thrown, tried >>
    /\ UNCHANGED << ensured, files, paths, exitCode, batch, output >>

\* Lines 46-104: metadata() resolved with (w, h); the dimensions are planned
\* and the first pass of the do/while runs up to `await toBuffer()`.
\* `floorSize` is what the encoder gives for this image at quality 10.
MetadataResolved(w, h, floorSize) ==
    /\ pc = "metadata"
    /\ IF w = 0 \/ h = 0
       THEN /\ pc' = "rejected"
            /\ thrown' = "dimensions"
            /\ UNCHANGED << width, height, newWidth, newHeight, quality,
                            attempts, buffer, tried, sizeAtFloor >>
       ELSE /\ pc' = "encode"
            /\ width' = w
            /\ height' = h
            /\ newWidth' = PlanDimensions(w, h).newWidth
            /\ newHeight' = PlanDimensions(w, h).newHeight
            /\ quality' = InitialQuality
            /\ attempts' = 1
            /\ sizeAtFloor' = floorSize
            /\ UNCHANGED << buffer, thrown, tried >>
    /\ UNCHANGED << ensured, files, paths, exitCode, batch, output >>

\* Lines 46, 133-136: metadata() rejects (the file is not an image).
MetadataRejected ==
    /\ pc = "metadata"
    /\ pc' = "rejected"
    /\ thrown' = "metadata"
    /\ UNCHANGED << ensured, files, paths, exitCode, batch, output,
                    width, height, newWidth, newHeight,
                    quality, attempts, buffer, tried, sizeAtFloor >>

\* The buffer of every pass is written, inside the loop.
EncodeResolvedWritesEachPass(len) ==
    /\ pc = "encode"
    /\ quality = QualityFloor => len = sizeAtFloor
    /\ tried' = Append(tried, << quality, len >>)
    /\ buffer' = len
    /\ output' = [output EXCEPT ![idx] = len]
    /\ IF TooLarge(len, quality)
       THEN /\ quality' = ReducedQuality(quality)
            /\ IF LoopAgain(len, attempts, quality')
               THEN attempts' = attempts + 1 /\ pc' = "encode"
               ELSE attempts' = attempts /\ pc' = "write"
       ELSE /\ quality' = quality
            /\ attempts' = attempts
            /\ pc' = "write"
    /\ UNCHANGED << ensured, files, paths, exitCode, batch, width, height,
                    newWidth, newHeight, thrown, sizeAtFloor >>

\* A buffer still over budget when the loop is left raises an error.
EncodeResolvedStrict(len) ==
    /\ pc = "encode"
    /\ quality = QualityFloor => len = sizeAtFloor
    /\ tried' = Append(tried, << quality, len >>)
    /\ buffer' = len
    /\ IF TooLarge(len, quality)
       THEN /\ quality' = ReducedQuality(quality)
            /\ IF LoopAgain(len, attempts, quality')
               THEN attempts' = attempts + 1 /\ pc' = "encode"
                    /\ thrown' = thrown
               ELSE attempts' = attempts /\ pc' = "rejected"
                    /\ thrown' = "encode"
       ELSE /\ quality' = quality
            /\ attempts' = attempts
            /\ pc' = "write"
            /\ thrown' = thrown
    /\ UNCHANGED << ensured, files, paths, exitCode, batch, output,
                    width, height, newWidth, newHeight,
                    sizeAtFloor >>

\* Lines 104-120: toBuffer() resolved with a buffer of `len` bytes.  The
\* quality is reduced or the loop is left; the loop either starts its next
\* pass (up to the next toBuffer) or storage.write is called.
EncodeResolved(len) ==
    /\ pc = "encode"
    /\ quality = QualityFloor => len = sizeAtFloor
    /\ tried' = Append(tried, << quality, len >>)
    /\ buffer' = len
    /\ IF TooLarge(len, quality)
       THEN /\ quality' = ReducedQuality(quality)
            /\ IF LoopAgain(len, attempts, quality')
               THEN attempts' = attempts + 1 /\ pc' = "encode"
               ELSE attempts' = attempts /\ pc' = "write"
       ELSE /\ quality' = quality
            /\ attempts' = attempts
            /\ pc' = "write"
    /\ UNCHANGED << ensured, files, paths, exitCode, batch, output,
                    width, height, newWidth, newHeight,
                    thrown, sizeAtFloor >>

\* The failure of an encode is caught inside the loop, which tries again.
EncodeRejectedRetried ==
    /\ pc = "encode"
    /\ thrown' = "encode"
    /\ IF attempts < maxAttempts
       THEN attempts' = attempts + 1 /\ pc' = "encode"
       ELSE attempts' = attempts /\ pc' = "rejected"
    /\ UNCHANGED << ensured, files, paths, exitCode, batch, output, width,
                    height, newWidth, newHeight, quality, buffer, tried,
                    sizeAtFloor >>

\* Lines 104, 133-136: the resize/encode step fails.
EncodeRejected ==
    /\ pc = "encode"
    /\ pc' = "rejected"
    /\ thrown' = "encode"
    /\ UNCHANGED << ensured, files, paths, exitCode, batch, output,
                    width, height, newWidth, newHeight,
                    quality, attempts, buffer, tried, sizeAtFloor >>

\* storage.write is called without `await`: resizeImage goes on while the
\* write is still outstanding.
WriteResolvedNotAwaited ==
    /\ pc = "write"
    /\ pc' = "getSize"
    /\ UNCHANGED << ensured, files, paths, exitCode, batch, locals, output >>

\* Lines 120-122: storage.write resolved, getFileSize(inputPath) is awaited.
WriteResolved ==
    /\ pc = "write"
    /\ output' = [output EXCEPT ![idx] = buffer]
    /\ pc' = "getSize"
    /\ UNCHANGED << ensured, files, paths, exitCode, batch, locals >>

\* Lines 120, 133-136.
WriteRejected ==
    /\ pc = "write"
    /\ pc' = "rejected"
    /\ thrown' = "write"
    /\ UNCHANGED << ensured, files, paths, exitCode, batch, output,
                    width, height, newWidth, newHeight,
                    quality, attempts, buffer, tried, sizeAtFloor >>

\* Lines 122-132: the sizes are logged and resizeImage returns.
GetSizeResolved ==
    /\ pc = "getSize"
    /\ pc' = "resolved"
    /\ UNCHANGED << ensured, files, paths, exitCode, batch, output, locals >>

\* Lines 122, 133-136.
GetSizeRejected ==
    /\ pc = "getSize"
    /\ pc' = "rejected"
    /\ thrown' = "getSize"
    /\ UNCHANGED << ensured, files, paths, exitCode, batch, output,
                    width, height, newWidth, newHeight,
                    quality, attempts, buffer, tried, sizeAtFloor >>

\* Lines 172-189: the for loop goes on to the next file, whose resizeImage
\* call awaits metadata(), or the loop is over.
NextFile ==
    /\ ResetLocals
    /\ IF idx < Len(imageFiles)
       THEN idx' = idx + 1 /\ pc' = "metadata"
            /\ CallResize(imageFiles[idx + 1])
       ELSE idx' = idx /\ pc' = "done" /\ NoCall

\* Line 178: `await resizeImage(...)` resumes normally.
ResizeReturned ==
    /\ pc = "resolved"
    /\ processedCount' = processedCount + 1
    /\ result' = [result EXCEPT ![idx] = "processed"]
    /\ NextFile
    /\ UNCHANGED << ensured, files, exitCode, imageFiles, errorCount,
                    output >>

\* The error of one file ends the for loop.
ResizeThrewAborts ==
    /\ pc = "rejected"
    /\ errorCount' = errorCount + 1
    /\ result' = [result EXCEPT ![idx] = thrown]
    /\ ResetLocals
    /\ idx' = idx
    /\ pc' = "done"
    /\ NoCall
    /\ UNCHANGED << ensured, files, exitCode, imageFiles, processedCount,
                    output >>

\* Lines 179-182: `await resizeImage(...)` throws into the catch.
ResizeThrew ==
    /\ pc = "rejected"
    /\ errorCount' = errorCount + 1
    /\ result' = [result EXCEPT ![idx] = thrown]
    /\ NextFile
    /\ UNCHANGED << ensured, files, exitCode, imageFiles, processedCount,
                    output >>

Next ==
    \/ EnsureResolved
    \/ EnsureRejected
    \/ \E found \in {l \in Listings(FileNames, MaxFiles) : NoRepeat(l)} :
            ScanResolved(found)
    \/ ScanRejected
    \/ \E w, h \in MainSides, s \in BufferSizes : MetadataResolved(w, h, s)
    \/ MetadataRejected
    \/ \E len \in BufferSizes : EncodeResolved(len)
    \/ EncodeRejected
    \/ WriteResolved
    \/ WriteRejected
    \/ GetSizeResolved
    \/ GetSizeRejected
    \/ ResizeReturned
    \/ ResizeThrew

Spec == Init /\ [][Next]_vars

\* The runtime runs every settled promise's continuation.
FairSpec == Spec /\ WF_vars(Next)

\* The planning of one image over the wide range of source sides: the state
\* in which resizeImage awaits the metadata of the only file.
PlanInit ==
    /\ pc = "metadata"
    /\ ensured = "ok"
    /\ files = << "a.jpg" >>
    /\ inputPath = join(ORIGINAL_FOLDER, "a.jpg")
    /\ outputPath = join(OUTPUT_FOLDER, "a.jpg")
    /\ exitCode = -1
    /\ imageFiles = << "a.jpg" >>
    /\ idx = 1
    /\ processedCount = 0
    /\ errorCount = 0
    /\ NoLocals
    /\ output = << NoBuffer >>
    /\ result = << "pending" >>

PlanNext ==
    \E w, h \in PlanSides, s \in BufferSizes : MetadataResolved(w, h, s)

PlanSpec == PlanInit /\ [][PlanNext]_vars

\* ------------------------------------------------------------ vocabulary

\* resizeImage has planned the dimensions of the current file.
Planned == pc \in {"encode", "write", "getSize", "resolved"}

\* The do/while of the current file has been left without an error.
LoopLeft == pc \in {"write", "getSize", "resolved"}

Failed(i) == result[i] \notin {"pending", "processed"}

LongestSide == Max(width, height)

\* n is a / b rounded to the nearest integer, halves up.
IsRounded(n, a, b) == 2 * n * b - b <= 2 * a /\ 2 * a < 2 * n * b + b

\* ------------------------------------------------------------------ claims

\* C1: the planned dimensions never exceed the source on either axis; a
\* source whose longest side is within MAX_DIMENSION keeps its dimensions;
\* otherwise the longest planned side is exactly MAX_DIMENSION.
C1_NoUpscaling ==
    Planned =>
        /\ newWidth <= width
        /\ newHeight <= height
        /\ LongestSide <= MAX_DIMENSION =>
               newWidth = width /\ newHeight = height
        /\ LongestSide > MAX_DIMENSION =>
               Max(newWidth, newHeight) = MAX_DIMENSION

\* A portrait source that was scaled down.
C1_Witness ==
    /\ Planned
    /\ width = 1000 /\ height = 2000
    /\ newWidth < width /\ newHeight = MAX_DIMENSION

\* C2: when the longest side exceeds MAX_DIMENSION the longest side becomes
\* MAX_DIMENSION and the other side is other * MAX_DIMENSION / longest
\* rounded to the nearest integer with halves up, hence less than one pixel
\* from the exact value; a square source gets MAX_DIMENSION on both sides;
\* (2000,1000) -> (1024,512), (1000,2000) -> (512,1024),
\* (2000,1500) -> (1024,768).
C2_RatioScaling ==
    (Planned /\ LongestSide > MAX_DIMENSION) =>
        /\ width >= height =>
               /\ newWidth = MAX_DIMENSION
               /\ IsRounded(newHeight, height * MAX_DIMENSION, width)
               /\ newHeight * width - height * MAX_DIMENSION < width
               /\ height * MAX_DIMENSION - newHeight * width < width
        /\ height >= width =>
               /\ newHeight = MAX_DIMENSION
               /\ IsRounded(newWidth, width * MAX_DIMENSION, height)
               /\ newWidth * height - width * MAX_DIMENSION < height
               /\ width * MAX_DIMENSION - newWidth * height < height
        /\ (width = 2000 /\ height = 1000) =>
               (newWidth = 1024 /\ newHeight = 512)
        /\ (width = 1000 /\ height = 2000) =>
               (newWidth = 512 /\ newHeight = 1024)
        /\ (width = 2000 /\ height = 1500) =>
               (newWidth = 1024 /\ newHeight = 768)

\* A scaled side whose exact value is not an integer and was rounded up.
C2_Witness ==
    /\ Planned
    /\ width = 3 /\ height = MAX_DIMENSION + 2
    /\ newWidth = 3 /\ newHeight = MAX_DIMENSION

\* The quality and the size of attempt i of the current file.
QualityOf(i) == tried[i][1]

SizeOf(i) == tried[i][2]

\* An encode is being awaited at `quality`.
Encoding == pc = "encode"

IsIntegerIn(q, lo, hi) ==
    /\ q % QScale = 0
    /\ lo * QScale <= q
    /\ q <= hi * QScale

\* C3: the quality of every encode attempt, and the quality reported when
\* the loop is left, is an integer between 10 and 95.
C3_QualityIntegerInRange ==
    /\ \A i \in 1 .. Len(tried) : IsIntegerIn(QualityOf(i), 10, 95)
    /\ (Encoding \/ LoopLeft) => IsIntegerIn(quality, 10, 95)

\* C4: within one call the quality of an attempt is never higher than the
\* quality of an earlier attempt.
C4_QualityNonIncreasing ==
    /\ \A i, j \in 1 .. Len(tried) : i < j => QualityOf(j) <= QualityOf(i)
    /\ Encoding => \A i \in 1 .. Len(tried) : quality <= QualityOf(i)

\* A third attempt is awaited at a quality below the first two.
C4_Witness ==
    /\ Encoding
    /\ Len(tried) = 2
    /\ QualityOf(2) < QualityOf(1)
    /\ quality < QualityOf(2)

\* C5: the search loop never makes more than maxAttempts attempts, and a
\* loop that has started is left.
C5_LoopTerminates ==
    /\ [](attempts <= maxAttempts /\ Len(tried) <= maxAttempts)
    /\ (Encoding ~> ~Encoding)

\* The loop was left at the attempt ceiling with the buffer over budget.
C5_Witness ==
    /\ pc = "write"
    /\ attempts = maxAttempts
    /\ Len(tried) = maxAttempts
    /\ buffer > MAX_FILE_SIZE

\* Every attempt of the current file so far gave a buffer over the budget.
AllOverBudget == \A i \in 1 .. Len(tried) : SizeOf(i) > MAX_FILE_SIZE

\* What the encoder gave for this image does not grow as the quality falls,
\* down to the size at quality 10.
SizeFollowsQuality ==
    /\ \A i, j \in 1 .. Len(tried) :
           QualityOf(j) <= QualityOf(i) => SizeOf(j) <= SizeOf(i)
    /\ \A i \in 1 .. Len(tried) :
           QualityOf(i) >= QualityFloor => sizeAtFloor <= SizeOf(i)

\* The image is over budget at quality 95 and within it at quality 10.
Compressible ==
    /\ Len(tried) >= 1
    /\ QualityOf(1) = InitialQuality
    /\ SizeOf(1) > MAX_FILE_SIZE
    /\ sizeAtFloor <= MAX_FILE_SIZE
    /\ SizeFollowsQuality

\* C6 as stated: for a compressible image the loop is left with a quality
\* below 95 and a buffer within the budget.
C6_Convergence ==
    (LoopLeft /\ Compressible) =>
        (quality < InitialQuality /\ buffer <= MAX_FILE_SIZE)

\* C6 amended: for a compressible image the loop is left with a quality
\* below 95, and with a buffer within the budget unless all maxAttempts
\* attempts were over budget, in which case the buffer of the last attempt
\* is kept.
C6_ConvergenceUnlessCeiling ==
    (LoopLeft /\ Compressible) =>
        /\ quality < InitialQuality
        /\ buffer = SizeOf(Len(tried))
        /\ \/ buffer <= MAX_FILE_SIZE
           \/ Len(tried) = maxAttempts /\ AllOverBudget

\* A compressible image that converged at its third attempt.
C6_Witness ==
    /\ LoopLeft
    /\ Compressible
    /\ Len(tried) = 3
    /\ buffer <= MAX_FILE_SIZE
    /\ quality < InitialQuality

\* C7: for an image over budget at every quality down to 10 the loop is
\* left after 10 attempts with quality 10, and the buffer of the last
\* attempt is the one written.
C7_NonConvergence ==
    (LoopLeft /\ AllOverBudget /\ sizeAtFloor > MAX_FILE_SIZE) =>
        /\ attempts = maxAttempts
        /\ quality = QualityFloor
        /\ buffer = SizeOf(Len(tried))
        /\ pc \in {"getSize", "resolved"} => output[idx] = buffer

QualityControlled(ext) == ext \in {".jpg", ".jpeg", ".png", ".webp"}

\* C8: for an output extension other than jpg/jpeg/png/webp exactly one
\* encode attempt is made and the quality is never reduced.
C8_PassthroughSingleAttempt ==
    ((Encoding \/ LoopLeft)
        /\ ~QualityControlled(getExtension(imageFiles[idx]))) =>
        (attempts = 1 /\ Len(tried) <= 1 /\ quality = InitialQuality)

Files == 1 .. Len(imageFiles)

\* C9: the files are finished in order, one count each; an error of one
\* file leaves the files after it to be attempted, and at the end
\* processedCount + errorCount is the number of image files.
C9_SkipAndContinue ==
    /\ \A i \in Files : result[i] # "pending" <=> (i < idx \/ pc = "done")
    /\ processedCount = Cardinality({i \in Files : result[i] = "processed"})
    /\ errorCount = Cardinality({i \in Files : Failed(i)})
    /\ pc = "done" => processedCount + errorCount = Len(imageFiles)
    /\ pc = "exited" => imageFiles = << >>

\* The first file failed and the second was processed all the same.
C9_Witness ==
    /\ pc = "done"
    /\ Len(imageFiles) = 2
    /\ Failed(1)
    /\ result[2] = "processed"
    /\ errorCount = 1 /\ processedCount = 1

\* The search of the current file was left with its last buffer over budget.
BudgetMissed ==
    /\ pc \in {"write", "getSize", "resolved", "rejected"}
    /\ attempts >= 1
    /\ Len(tried) = attempts
    /\ SizeOf(attempts) > MAX_FILE_SIZE

C11_FatalStartup ==
    ensured = "failed" =>
        /\ pc = "exited"
        /\ exitCode # -1 /\ exitCode # 0
        /\ files = << >> /\ imageFiles = << >> /\ idx = 0
        /\ inputPath = << >> /\ outputPath = << >>
        /\ NoLocals
        /\ output = << >>
        /\ processedCount = 0 /\ errorCount = 0

\* The output folder could not be made ready and the process has exited.
C11_Witness ==
    /\ ensured = "failed"
    /\ pc = "exited"
    /\ exitCode = 1

\* A call of resizeImage is in progress.
InCall == pc \in {"metadata", "encode", "write", "getSize", "resolved",
                  "rejected"}

\* C12: the images are processed one at a time in list order: every image
\* before the current one is finished, with its write completed if it was
\* processed, no image after the current one has been touched, and the
\* loop moves on by one image only when the current call has settled.
C12_Sequential ==
    /\ [](\A i \in Files :
            /\ i < idx => result[i] # "pending"
            /\ i > idx => (result[i] = "pending" /\ output[i] = NoBuffer)
            /\ result[i] = "processed" => output[i] # NoBuffer
            /\ (InCall /\ i = idx) =>
                   (result[i] = "pending"
                        /\ inputPath = join(ORIGINAL_FOLDER, imageFiles[i])))
    /\ [][/\ idx' \in {idx, idx + 1}
          /\ (idx' # idx /\ idx >= 1) => pc \in {"resolved", "rejected"}
          /\ \A i \in 1 .. Len(output) :
                 (Len(output') = Len(output) /\ output'[i] # output[i]) =>
                     (i = idx /\ pc = "write")]_vars

\* The second image is being encoded after the first was written and counted.
C12_Witness ==
    /\ idx = 2
    /\ pc = "encode"
    /\ result[1] = "processed"
    /\ output[1] # NoBuffer
    /\ output[2] = NoBuffer

\* q * 0.8 rounded down to an integer, not below the floor.
FlooredDecay(q) == Max(QualityFloor, (Times08(q) \div QScale) * QScale)

ClaimedQualities == << 95, 76, 60, 48, 38, 30, 24, 19, 15, 12 >>

\* C13: every reduction takes the quality q to max(10, floor(q * 0.8)), so
\* that attempt i is made at the i-th of 95, 76, 60, 48, 38, 30, 24, 19,
\* 15, 12.
C13_DecayStep ==
    /\ \A i \in 1 .. Len(tried) :
           /\ QualityOf(i) = ClaimedQualities[i] * QScale
           /\ i > 1 => QualityOf(i) = FlooredDecay(QualityOf(i - 1))
    /\ (Encoding /\ tried # << >>) =>
           quality = FlooredDecay(QualityOf(Len(tried)))

\* C14: the quality is reduced after an attempt only if that attempt was
\* over budget, above the floor and not the last allowed one, so that the
\* quality held when the loop is left is the quality of the accepted buffer.
C14_ReportedQualityIsEncoded ==
    /\ \A i \in 1 .. Len(tried) - 1 :
           QualityOf(i + 1) # QualityOf(i) =>
               /\ SizeOf(i) > MAX_FILE_SIZE
               /\ QualityOf(i) > QualityFloor
               /\ i < maxAttempts
    /\ LoopLeft =>
           /\ quality = QualityOf(Len(tried))
           /\ buffer = SizeOf(Len(tried))

\* C15: when an encode fails, resizeImage rejects at once: no further
\* attempt is made, nothing is written for the file, and the file is
\* counted as failed.
C15_EncodeFailureNotRetried ==
    /\ thrown = "encode" =>
           /\ pc = "rejected"
           /\ Len(tried) = attempts - 1
           /\ output[idx] = NoBuffer
           /\ result[idx] = "pending"
    /\ \A i \in Files : result[i] = "encode" => output[i] = NoBuffer
    /\ errorCount >= Cardinality({i \in Files : result[i] = "encode"})

\* An encode of the first file failed; the file was counted as failed with
\* nothing written, and the second file was taken.
C15_Witness ==
    /\ Len(imageFiles) = 2
    /\ result[1] = "encode"
    /\ output[1] = NoBuffer
    /\ errorCount = 1
    /\ idx = 2

\* C16: a source whose width or height is missing or 0 is rejected before
\* anything is planned, encoded or written; the file is counted as failed
\* and the next file is taken.
C16_UnreadableDimensions ==
    /\ Planned => (width > 0 /\ height > 0)
    /\ thrown = "dimensions" =>
           /\ pc = "rejected"
           /\ attempts = 0 /\ tried = << >> /\ buffer = NoBuffer
           /\ newWidth = 0 /\ newHeight = 0
           /\ output[idx] = NoBuffer
    /\ \A i \in Files :
           result[i] = "dimensions" =>
               /\ output[i] = NoBuffer
               /\ errorCount >= 1
               /\ IF i < Len(imageFiles) THEN idx > i ELSE pc = "done"

\* The first file had no readable dimensions and the second is encoded.
C16_Witness ==
    /\ Len(imageFiles) = 2
    /\ result[1] = "dimensions"
    /\ errorCount = 1
    /\ idx = 2
    /\ pc = "encode"

\* The current file is written as PNG.
PngOutput == InCall /\ getExtension(outputPath[2]) = ".png"

\* C17: for a PNG output the compression level of every attempt is an
\* integer from 0 to 9, and it never decreases from one attempt to the next.
C17_PngLevelNonDecreasing ==
    PngOutput =>
        /\ \A i \in 1 .. Len(tried) :
               PngCompressionLevel(QualityOf(i)) \in 0 .. 9
        /\ \A i, j \in 1 .. Len(tried) :
               i < j => PngCompressionLevel(QualityOf(i))
                            <= PngCompressionLevel(QualityOf(j))
        /\ Encoding =>
               /\ PngCompressionLevel(quality) \in 0 .. 9
               /\ \A i \in 1 .. Len(tried) :
                      PngCompressionLevel(QualityOf(i))
                          <= PngCompressionLevel(quality)

\* A PNG whose ten attempts went from level 0 at quality 95 up to level 8.
C17_Witness ==
    /\ PngOutput
    /\ Len(tried) = maxAttempts
    /\ PngCompressionLevel(QualityOf(1)) = 0
    /\ PngCompressionLevel(QualityOf(2)) = 2
    /\ PngCompressionLevel(QualityOf(3)) = 4
    /\ PngCompressionLevel(QualityOf(maxAttempts)) = 8

\* C18: for a source with both sides at least 1, both planned sides are at
\* least 1.
C18_PlannedAtLeastOne ==
    (Planned /\ width >= 1 /\ height >= 1) =>
        (newWidth >= 1 /\ newHeight >= 1)

\* A step that changes the output of file i is the completion of the one
\* storage.write of the current file, made after the loop was left, with
\* the buffer of the last attempt.
WriteOnceAfterLoop ==
    \A i \in 1 .. Len(output) :
        (Len(output') = Len(output) /\ output'[i] # output[i]) =>
            /\ i = idx
            /\ pc = "write"
            /\ output[i] = NoBuffer
            /\ Len(tried) = attempts
            /\ output'[i] = SizeOf(attempts)

\* The write is called when the loop is left and at no other time.
WriteCalledOnce ==
    (pc # "write" /\ pc' = "write") =>
        (pc = "encode" /\ idx' = idx /\ output[idx] = NoBuffer)

\* C19 as stated, its part on the counts: a finished file is counted as
\* processed exactly if its output was written, and a file counted as
\* failed has no output.
C19_ProcessedIffWritten ==
    \A i \in Files :
        /\ result[i] = "processed" => output[i] # NoBuffer
        /\ (result[i] # "pending" /\ output[i] # NoBuffer) =>
               result[i] = "processed"
        /\ Failed(i) => output[i] = NoBuffer

\* C19 amended: a file counted as processed has its output written; a file
\* counted as failed has no output, except that a file failed by getSize,
\* which is called after the write, has its output written; the write
\* happens once, after the loop.
C19_WrittenUnlessFailedBeforeWrite ==
    /\ [](\A i \in Files :
            /\ result[i] = "processed" => output[i] # NoBuffer
            /\ Failed(i) => (output[i] # NoBuffer <=> result[i] = "getSize"))
    /\ [][WriteOnceAfterLoop /\ WriteCalledOnce]_vars

\* A file whose output was written was counted as failed by getSize.
C19_Witness ==
    /\ Len(imageFiles) >= 1
    /\ result[1] = "getSize"
    /\ output[1] # NoBuffer
    /\ errorCount = 1
    /\ processedCount = 0

\* The names of FileNames whose extension is, whatever its case, one of
\* .jpg, .jpeg, .png, .webp, .tiff, .bmp.
SupportedNames == {"a.jpg", "b.PNG", "c.tiff"}

IsSupportedName(fileName) == fileName \in SupportedNames

\* C20: resizeImage is called for the supported files the scan found, all
\* of them and no others, in the order found; each call reads the file of
\* that name in the original folder and writes the file of the same name in
\* the output folder.
C20_InputFiltering ==
    /\ \A i \in Files : IsSupportedName(imageFiles[i])
    /\ pc \notin {"ensure", "scan", "exited"} =>
           imageFiles = SelectSeq(files, IsSupportedName)
    /\ pc = "done" => \A i \in Files : result[i] # "pending"
    /\ InCall =>
           /\ inputPath = << "./original", imageFiles[idx] >>
           /\ outputPath = << "./output", imageFiles[idx] >>
    /\ ~InCall => (inputPath = << >> /\ outputPath = << >>)

\* An upper-case .PNG found after a text file is being written to the
\* output folder under its own name.
C20_Witness ==
    /\ files = << "d.txt", "b.PNG" >>
    /\ imageFiles = << "b.PNG" >>
    /\ pc = "getSize"
    /\ inputPath = << "./original", "b.PNG" >>
    /\ outputPath = << "./output", "b.PNG" >>
    /\ output[1] # NoBuffer

====
